---- MODULE Spec2Model ----
(***************************************************************************)
(* Model of the beach-data generator (src/genjson.py) and of the query     *)
(* service's detail endpoint (src/xxapp.py).                                *)
(*                                                                          *)
(* Fixed-point units (the source computes in binary floating point):        *)
(*   probabilities, mean, dev, change factors : 1/1000      (1000 = 1.0)    *)
(*   grain diameter and area as stored        : 1e-5        (round(x, 5))   *)
(*   grain diameter and area as drawn         : 1e-6        (before round)  *)
(*   latitude, longitude as stored            : 1e-7 degree (round(x, 7))   *)
(*   latitude, longitude as drawn             : 1e-8 degree (before round)  *)
(* round(x, n) is modelled as round-half-to-even of the exact quotient.     *)
(***************************************************************************)
EXTENDS Integers, Sequences, FiniteSets, TLC

VARIABLES
    \* generate_realistic_beach_data: parameters
    num_runs, locations_per_run, grains_per_location,
    \* generate_realistic_beach_data: locals
    pc, all_grid_cells, num_locations, cell_index, master_locations,
    global_tendency, runs, i, run_data, daily_params, location_index,
    \* lines 38-56 at the source's own grid size, the master list by its length
    grid_pc, grid_target, grid_index, grid_count,
    \* the evolve block of lines 94-122 taken as a function of its inputs
    e_pc, e_day, previous_grains, e_params, e_draw, surviving_grains,
    \* xxapp.get_runs: the database, the request and its outcome
    db_fault, db, request_id, response, reads

gen_vars == <<num_runs, locations_per_run, grains_per_location, pc,
              all_grid_cells, num_locations, cell_index, master_locations,
              global_tendency, runs, i, run_data, daily_params, location_index>>
grid_vars == <<grid_pc, grid_target, grid_index, grid_count>>
evolve_vars == <<e_pc, e_day, previous_grains, e_params, e_draw, surviving_grains>>
api_vars == <<db_fault, db, request_id, response, reads>>
vars == <<gen_vars, grid_vars, evolve_vars, api_vars>>

----------------------------------------------------------------------------
(* Bounds of the model. *)

MaxRuns == 2          \* num_runs ranges over 0..MaxRuns
MaxTargetN == 2       \* locations_per_run bounds range over 1..MaxTargetN
MaxGrains == 1        \* grains_per_location bounds range over 0..MaxGrains
MaxPrevGrains == 2    \* longest previous grain set the evolve block is given
MaxEvolveDays == 2    \* days the evolve block is chained over

----------------------------------------------------------------------------
(* Arithmetic helpers. *)

Max(a, b) == IF a >= b THEN a ELSE b

Abs(x) == IF x < 0 THEN -x ELSE x

\* Python round(): nearest multiple of den, ties to the even quotient.
\* \div floors, so r is in 0..den-1 for negative n as well.
RoundDiv(n, den) ==
    LET q == n \div den
        r == n % den
    IN  IF 2 * r < den THEN q
        ELSE IF 2 * r > den THEN q + 1
        ELSE IF q % 2 = 0 THEN q ELSE q + 1

\* random.randint(a, b): both ends included.
RandInt(a, b) == a..b

Range(s) == {s[k] : k \in 1..Len(s)}

Permutations_of(s) ==
    {p \in [1..Len(s) -> Range(s)] : \A a, b \in 1..Len(s) : a # b => p[a] # p[b]}

----------------------------------------------------------------------------
(* GridSampler: lines 12-56. *)

\* The source's grid (line 26).
grid_size_x == 20
grid_size_y == 16

\* The grid the run loop is checked over: the source's 20 x 16 scaled down,
\* the allocation formula unchanged.
scaled_grid_x == 2
scaled_grid_y == 1

\* The arguments center_lat (12.35678), center_lon (7.713456) and delta_max
\* (0.0025, the static configuration), in 1e-8 degree.
center_lat == 1235678000
center_lon == 771345600
delta_max == 250000

min_lat == center_lat - delta_max
max_lat == center_lat + delta_max
min_lon == center_lon - delta_max
max_lon == center_lon + delta_max

cell_width == (max_lon - min_lon) \div scaled_grid_x
cell_height == (max_lat - min_lat) \div scaled_grid_y

\* [(x, y) for x in range(gx) for y in range(gy)]
grid_cells(gx, gy) ==
    [k \in 1..(gx * gy) |-> <<(k - 1) \div gy, (k - 1) % gy>>]

locations_per_cell(N, ncells) == Max(1, N \div ncells)

extra_locations(N, ncells) == N % ncells

\* cell_index counts from 0, as enumerate() does.
current_cell_locations(N, ncells, idx) ==
    locations_per_cell(N, ncells) + (IF idx < extra_locations(N, ncells) THEN 1 ELSE 0)

\* Draws of (random.uniform(a, b), random.uniform(c, d)) at lines 51-52: the
\* sampled points of the cell's rectangle.
CellSamples(a, b, c, d) == {<<a + 15, c + 25>>, <<b, d>>}

\* {"lat": round(.., 7), "lon": round(.., 7)} from the two draws.
master_location(lon_draw, lat_draw) ==
    [lat |-> RoundDiv(lat_draw, 10), lon |-> RoundDiv(lon_draw, 10)]

----------------------------------------------------------------------------
(* DailyParameterSampler: lines 18-23 and 74-77. *)

base_tendency ==
    [mean |-> 1000, dev |-> 50, add_chance |-> 50, remove_chance |-> 50]

\* Half-widths of the perturbations: uniform(-0.02, 0.02) at line 75,
\* uniform(-0.03, 0.03) at lines 76 and 77.
mean_spread == 20
chance_spread == 30

\* Draws of the three perturbations of lines 75-77, in that order.
PerturbationSamples ==
    {<<-mean_spread, chance_spread, -chance_spread>>,
     <<mean_spread, -chance_spread, chance_spread>>}

\* Mutant: daily_params = global_tendency, one dict under two names.
tendency_aliased(gt, dp) == dp

\* What global_tendency holds once the day's copy has been perturbed into dp:
\* copy.deepcopy() gives the day a dict of its own, so the base is untouched.
tendency_after_copy(gt, dp) == gt

\* Lines 74-77 applied to the copy.
perturbed(gt, dm, da, dr) ==
    [gt EXCEPT !.mean = @ + dm, !.add_chance = @ + da, !.remove_chance = @ + dr]

----------------------------------------------------------------------------
(* GrainPopulationEvolver: lines 84-122. *)

\* uniform(0.5, 1.5) and uniform(0.2, 2.0) of lines 88-89 and 115-116, in 1e-6.
diameter_min == 500000
diameter_max == 1500000
area_min == 200000
area_max == 2000000

\* Draws of (base_diameter, base_area) at lines 88-89.
InitialGrainDraws == {<<diameter_min, area_max>>, <<diameter_max, area_min>>}

\* Draws of (base_diameter, base_area) at lines 115-116.
AccretionGrainDraws == {<<1000005, 1100015>>}

\* Lines 90-93 and 117-120.
fresh_grain(draw) ==
    [diameter |-> Abs(RoundDiv(draw[1], 10)), area |-> Abs(RoundDiv(draw[2], 10))]

\* Draws of random.random(): points of [0, 1), in 1/1000.
RandomSamples == {0, 50, 999}

\* random.randint(1, 7) at line 113, and its draws.
min_new_grains == 1
max_new_grains == 7
NumNewGrains == {min_new_grains, max_new_grains}

\* Mutant: the clamp written with min() for max().
survives_min_clamp(r, dp) == r > (IF dp.remove_chance < 0 THEN dp.remove_chance ELSE 0)

\* Line 102.
survives(r, dp) == r > Max(0, dp.remove_chance)

\* Line 103: the sampled points of uniform(mean - dev, mean + dev).
ChangeFactorSamples(dp) == {dp.mean - dp.dev, dp.mean + dp.dev}

\* Mutant: the 5 decimals cut off instead of rounded.
resized_truncating(prev_grain, change_factor) ==
    [diameter |-> Abs((prev_grain.diameter * change_factor) \div 1000),
     area |-> Abs((prev_grain.area * change_factor) \div 1000)]

\* Lines 104-109.
resized(prev_grain, change_factor) ==
    [diameter |-> Abs(RoundDiv(prev_grain.diameter * change_factor, 1000)),
     area |-> Abs(RoundDiv(prev_grain.area * change_factor, 1000))]

\* Line 112.
accretes(g, dp) == g < Max(0, dp.add_chance)

\* Lines 98-109 for given draws: rs[k] is the survival draw of grain k and
\* fs[k] its change factor (read only when the grain survives).
RECURSIVE survivors_from(_, _, _, _, _)
survivors_from(k, prev, dp, rs, fs) ==
    IF k > Len(prev) THEN <<>>
    ELSE (IF survives(rs[k], dp) THEN <<resized(prev[k], fs[k])>> ELSE <<>>)
         \o survivors_from(k + 1, prev, dp, rs, fs)

\* Lines 98-122 for given draws: news are the grains of the accretion branch.
evolved(prev, dp, rs, fs, g, news) ==
    survivors_from(1, prev, dp, rs, fs) \o (IF accretes(g, dp) THEN news ELSE <<>>)

\* The draws one previous grain consumes: <<r, change_factor>>. Line 103 is
\* reached only when the grain survives; no factor is drawn otherwise (0).
GrainDraws(dp) ==
    {<<r, f>> : r \in {x \in RandomSamples : survives(x, dp)}, f \in ChangeFactorSamples(dp)}
    \cup {<<r, 0>> : r \in {x \in RandomSamples : ~survives(x, dp)}}

\* The draws of lines 112-120: <<g, new grains>>. Lines 113-116 are reached
\* only when the gate passes; nothing more is drawn otherwise.
AccretionDraws(dp) ==
    {<<g, news>> : g \in {x \in RandomSamples : accretes(x, dp)},
                   news \in UNION {[1..k -> {fresh_grain(d) : d \in AccretionGrainDraws}] :
                                      k \in NumNewGrains}}
    \cup {<<g, <<>>>> : g \in {x \in RandomSamples : ~accretes(x, dp)}}

\* All grain sets lines 98-122 can produce from prev under dp.
Evolutions(prev, dp) ==
    {evolved(prev, dp, [k \in 1..Len(prev) |-> ds[k][1]], [k \in 1..Len(prev) |-> ds[k][2]],
             a[1], a[2]) :
        ds \in [1..Len(prev) -> GrainDraws(dp)], a \in AccretionDraws(dp)}

\* Mutant: the upper end taken as exclusive and stepped over.
num_grains_draws_wide(gpl) == RandInt(gpl[1], gpl[2] + 1)

\* Line 86.
num_grains_draws(gpl) == RandInt(gpl[1], gpl[2])

\* Mutant: the previous grains read at index 0 for every location.
grains_of_first_location(rs, day, idx) == rs[day].locations[1].grains

\* Line 96: runs[i-1] is the i-th element counting from 1.
grains_of_previous_run(rs, day, idx) == rs[day].locations[idx + 1].grains

\* Mutant: lat and lon exchanged.
location_record_swapped(loc_info, grains) ==
    [lat |-> loc_info.lon, lon |-> loc_info.lat, grains |-> grains]

\* Line 82, with the grains the branch built.
location_record(loc_info, grains) ==
    [lat |-> loc_info.lat, lon |-> loc_info.lon, grains |-> grains]

----------------------------------------------------------------------------
(* RunAssembler: lines 59-70. *)

start_date == <<2025, 9, 21>>

\* start_date + timedelta(days = d), for the days the model reaches
\* (September has 30 days).
date_plus(date, d) ==
    IF date[3] + d <= 30 THEN <<date[1], date[2], date[3] + d>>
    ELSE <<date[1], date[2] + 1, date[3] + d - 30>>

\* strftime('%Y%m%d') read as a number, behind the "run_" prefix.
operation_id_of(date) == <<"run_", date[1] * 10000 + date[2] * 100 + date[3]>>

\* Draws of (randint(7, 18), randint(0, 59)).
TimeSamples == {<<7, 59>>}

new_run(day, t) ==
    [operation_id |-> operation_id_of(date_plus(start_date, day)),
     date |-> date_plus(start_date, day),
     time |-> t,
     locations |-> <<>>]

\* Mutant: the run put in front.
with_run_in_front(rs, rd) == <<rd>> \o rs

\* Line 126.
with_run(rs, rd) == Append(rs, rd)

----------------------------------------------------------------------------
(* Values of the variables a specification does not use. *)

NoRun == new_run(0, <<0, 0>>)

GenIdle ==
    /\ num_runs = 0 /\ locations_per_run = <<0, 0>> /\ grains_per_location = <<0, 0>>
    /\ pc = "idle" /\ all_grid_cells = <<>> /\ num_locations = 0 /\ cell_index = 0
    /\ master_locations = <<>> /\ global_tendency = base_tendency /\ runs = <<>>
    /\ i = 0 /\ run_data = NoRun /\ daily_params = base_tendency /\ location_index = 0

GridIdle == grid_pc = "idle" /\ grid_target = 0 /\ grid_index = 0 /\ grid_count = 0

NoId == [kind |-> "none", upper |-> FALSE, n |-> 0]

NoResponse == [status |-> 0, error |-> "", name |-> "", runs |-> ""]

ApiIdle ==
    /\ db_fault = "none" /\ db = [collections |-> <<>>, summaries |-> {}]
    /\ request_id = NoId /\ response = NoResponse /\ reads = <<>>

EvolveIdle ==
    /\ e_pc = "idle" /\ e_day = 0 /\ previous_grains = <<>> /\ e_params = base_tendency
    /\ e_draw = [rs |-> <<>>, g |-> 0] /\ surviving_grains = <<>>

----------------------------------------------------------------------------
(* generate_realistic_beach_data, lines 6-128, one action per step of its    *)
(* loops.                                                                    *)

Pairs(lo, hi) == {<<a, b>> : a \in lo..hi, b \in lo..hi} \cap {p \in (lo..hi) \X (lo..hi) : p[1] <= p[2]}

\* Entry: the arguments, and the locals set before line 38.
GenInit ==
    /\ num_runs \in 0..MaxRuns
    /\ locations_per_run \in Pairs(1, MaxTargetN)
    /\ grains_per_location \in Pairs(0, MaxGrains)
    /\ pc = "sample"
    /\ all_grid_cells = grid_cells(scaled_grid_x, scaled_grid_y)
    /\ num_locations = 0
    /\ cell_index = 0
    /\ master_locations = <<>>
    /\ global_tendency = base_tendency
    /\ runs = <<>>
    /\ i = 0
    /\ run_data = NoRun
    /\ daily_params = base_tendency
    /\ location_index = 0

\* Lines 38-42: the target count and the shuffle.
SampleCount ==
    /\ pc = "sample"
    /\ num_locations' \in RandInt(locations_per_run[1], locations_per_run[2])
    /\ all_grid_cells' \in Permutations_of(all_grid_cells)
    /\ cell_index' = 0
    /\ pc' = "cells"
    /\ UNCHANGED <<num_runs, locations_per_run, grains_per_location, master_locations,
                   global_tendency, runs, i, run_data, daily_params, location_index>>
    /\ UNCHANGED <<grid_vars, evolve_vars, api_vars>>

\* Lines 44-54: one grid cell, with all the locations it is assigned.
FillCell ==
    /\ pc = "cells"
    /\ cell_index < Len(all_grid_cells)
    /\ LET cell == all_grid_cells[cell_index + 1]
           cell_min_lon == min_lon + cell[1] * cell_width
           cell_min_lat == min_lat + cell[2] * cell_height
           n == current_cell_locations(num_locations, Len(all_grid_cells), cell_index)
       IN  \E draws \in [1..n -> CellSamples(cell_min_lon, cell_min_lon + cell_width,
                                              cell_min_lat, cell_min_lat + cell_height)] :
               master_locations' =
                   master_locations \o [k \in 1..n |-> master_location(draws[k][1], draws[k][2])]
    /\ cell_index' = cell_index + 1
    /\ UNCHANGED <<num_runs, locations_per_run, grains_per_location, pc, all_grid_cells,
                   num_locations, global_tendency, runs, i, run_data, daily_params,
                   location_index>>
    /\ UNCHANGED <<grid_vars, evolve_vars, api_vars>>

\* Lines 56-63: the cells are exhausted, the run loop begins.
BeginRuns ==
    /\ pc = "cells"
    /\ cell_index = Len(all_grid_cells)
    /\ i' = 0
    /\ pc' = "runs"
    /\ UNCHANGED <<num_runs, locations_per_run, grains_per_location, all_grid_cells,
                   num_locations, cell_index, master_locations, global_tendency, runs,
                   run_data, daily_params, location_index>>
    /\ UNCHANGED <<grid_vars, evolve_vars, api_vars>>

\* Lines 63-79: the run record and the day's parameters.
StartRun ==
    /\ pc = "runs"
    /\ i < num_runs
    /\ \E t \in TimeSamples : run_data' = new_run(i, t)
    /\ \E d \in PerturbationSamples :
           daily_params' = perturbed(global_tendency, d[1], d[2], d[3])
    /\ global_tendency' = tendency_after_copy(global_tendency, daily_params')
    /\ location_index' = 0
    /\ pc' = "locations"
    /\ UNCHANGED <<num_runs, locations_per_run, grains_per_location, all_grid_cells,
                   num_locations, cell_index, master_locations, runs, i>>
    /\ UNCHANGED <<grid_vars, evolve_vars, api_vars>>

\* Lines 81-93 and 124: a location of the first run.
InitialLocation ==
    /\ pc = "locations"
    /\ location_index < Len(master_locations)
    /\ i = 0
    /\ \E n \in num_grains_draws(grains_per_location) :
       \E draws \in [1..n -> InitialGrainDraws] :
           run_data' = [run_data EXCEPT !.locations =
               Append(@, location_record(master_locations[location_index + 1],
                                         [k \in 1..n |-> fresh_grain(draws[k])]))]
    /\ location_index' = location_index + 1
    /\ UNCHANGED <<num_runs, locations_per_run, grains_per_location, pc, all_grid_cells,
                   num_locations, cell_index, master_locations, global_tendency, runs, i,
                   daily_params>>
    /\ UNCHANGED <<grid_vars, evolve_vars, api_vars>>

\* Lines 81-82 and 94-124: a location of a later run.
EvolveLocation ==
    /\ pc = "locations"
    /\ location_index < Len(master_locations)
    /\ i > 0
    /\ \E grains \in Evolutions(grains_of_previous_run(runs, i, location_index), daily_params) :
           run_data' = [run_data EXCEPT !.locations =
               Append(@, location_record(master_locations[location_index + 1], grains))]
    /\ location_index' = location_index + 1
    /\ UNCHANGED <<num_runs, locations_per_run, grains_per_location, pc, all_grid_cells,
                   num_locations, cell_index, master_locations, global_tendency, runs, i,
                   daily_params>>
    /\ UNCHANGED <<grid_vars, evolve_vars, api_vars>>

\* Line 126, and back to line 63.
AppendRun ==
    /\ pc = "locations"
    /\ location_index = Len(master_locations)
    /\ runs' = with_run(runs, run_data)
    /\ i' = i + 1
    /\ pc' = "runs"
    /\ UNCHANGED <<num_runs, locations_per_run, grains_per_location, all_grid_cells,
                   num_locations, cell_index, master_locations, global_tendency, run_data,
                   daily_params, location_index>>
    /\ UNCHANGED <<grid_vars, evolve_vars, api_vars>>

\* Line 128.
ReturnData ==
    /\ pc = "runs"
    /\ i >= num_runs
    /\ pc' = "done"
    /\ UNCHANGED <<num_runs, locations_per_run, grains_per_location, all_grid_cells,
                   num_locations, cell_index, master_locations, global_tendency, runs, i,
                   run_data, daily_params, location_index>>
    /\ UNCHANGED <<grid_vars, evolve_vars, api_vars>>

Init == GenInit /\ GridIdle /\ EvolveIdle /\ ApiIdle

GenNext ==
    \/ SampleCount
    \/ FillCell
    \/ BeginRuns
    \/ StartRun
    \/ InitialLocation
    \/ EvolveLocation
    \/ AppendRun
    \/ ReturnData

Next == GenNext

Spec == Init /\ [][Next]_vars

----------------------------------------------------------------------------
(* Lines 38-56 over the source's 20 x 16 grid. The loop body appends          *)
(* current_cell_locations entries, so the length of master_locations is all  *)
(* this specification keeps of the list.                                     *)

\* Draws of random.randint(locations_per_run[0], locations_per_run[1]), over
\* the ranges (1, 1), (319, 321) and the configured (2000, 3000).
TargetSamples == {1, 319, 320, 321, 2000, 2999, 3000}

GridInit == grid_pc = "sample" /\ grid_target = 0 /\ grid_index = 0 /\ grid_count = 0

\* Lines 37-42.
GridSample ==
    /\ grid_pc = "sample"
    /\ grid_target' \in TargetSamples
    /\ grid_pc' = "cells"
    /\ UNCHANGED <<grid_index, grid_count>>
    /\ UNCHANGED <<gen_vars, evolve_vars, api_vars>>

\* Lines 44-54 for one cell.
GridFillCell ==
    /\ grid_pc = "cells"
    /\ grid_index < grid_size_x * grid_size_y
    /\ grid_count' = grid_count
           + current_cell_locations(grid_target, grid_size_x * grid_size_y, grid_index)
    /\ grid_index' = grid_index + 1
    /\ UNCHANGED <<grid_pc, grid_target>>
    /\ UNCHANGED <<gen_vars, evolve_vars, api_vars>>

\* Line 56.
GridDone ==
    /\ grid_pc = "cells"
    /\ grid_index = grid_size_x * grid_size_y
    /\ grid_pc' = "done"
    /\ UNCHANGED <<grid_target, grid_index, grid_count>>
    /\ UNCHANGED <<gen_vars, evolve_vars, api_vars>>

GridNext == GridSample \/ GridFillCell \/ GridDone

InitGrid == GridInit /\ GenIdle /\ EvolveIdle /\ ApiIdle

SpecGrid == InitGrid /\ [][GridNext]_vars

----------------------------------------------------------------------------
(* Lines 94-122 as a function of the previous grain set and the day's        *)
(* parameters, chained over days: what one location goes through from run    *)
(* to run. Lines 102 and 112 clamp remove_chance and add_chance at zero, so  *)
(* the block is given values below 0 and above 1 as well as the ones line    *)
(* 76-77 produce; mean and dev are the ones lines 19-20 and 75 produce.      *)

\* A location's grains after some number of runs: fresh ones, and ones the
\* repeated resizing has brought down to the last decimals.
PreviousGrainSamples ==
    {[diameter |-> 1, area |-> 1], [diameter |-> 2, area |-> 7],
     [diameter |-> 150000, area |-> 20000]}

PreviousGrainSets ==
    UNION {[1..n -> PreviousGrainSamples] : n \in 0..MaxPrevGrains}

\* The day's parameters: mean at either end of its perturbation, add_chance
\* at 0.08, and remove_chance at -0.01, 0, 0.08, 1.0 and 1.5.
EvolveParams ==
    {perturbed(base_tendency, dm, da, dr) :
        dm \in {-mean_spread, mean_spread}, da \in {chance_spread},
        dr \in {-60, -50, chance_spread, 950, 1450}}

EvolveInit ==
    /\ e_pc = "ready"
    /\ e_day = 1
    /\ previous_grains \in PreviousGrainSets
    /\ e_params \in EvolveParams
    /\ e_draw = [rs |-> <<>>, g |-> 0]
    /\ surviving_grains = <<>>

\* Lines 98-122 on previous_grains; the survival and gate draws are kept.
Evolve ==
    /\ e_pc = "ready"
    /\ \E ds \in [1..Len(previous_grains) -> GrainDraws(e_params)],
          a \in AccretionDraws(e_params) :
           LET rs == [k \in 1..Len(previous_grains) |-> ds[k][1]]
               fs == [k \in 1..Len(previous_grains) |-> ds[k][2]]
           IN  /\ surviving_grains' = evolved(previous_grains, e_params, rs, fs, a[1], a[2])
               /\ e_draw' = [rs |-> rs, g |-> a[1]]
    /\ e_pc' = "evolved"
    /\ UNCHANGED <<e_day, previous_grains, e_params>>
    /\ UNCHANGED <<gen_vars, grid_vars, api_vars>>

\* Line 96 on the next day: the grains just stored are the previous grains,
\* under that day's parameters.
NextDay ==
    /\ e_pc = "evolved"
    /\ e_day < MaxEvolveDays
    /\ Len(surviving_grains) <= MaxPrevGrains
    /\ previous_grains' = surviving_grains
    /\ e_params' \in EvolveParams
    /\ e_day' = e_day + 1
    /\ e_draw' = [rs |-> <<>>, g |-> 0]
    /\ surviving_grains' = <<>>
    /\ e_pc' = "ready"
    /\ UNCHANGED <<gen_vars, grid_vars, api_vars>>

EvolveNext == Evolve \/ NextDay

InitEvolve == EvolveInit /\ GenIdle /\ GridIdle /\ ApiIdle

SpecEvolve == InitEvolve /\ [][EvolveNext]_vars

----------------------------------------------------------------------------
(* xxapp.get_runs, lines 43-117.                                             *)
(*                                                                           *)
(* An id is a string, kept by what the handler can tell about it: 24 hex     *)
(* digits (in lower or upper case), 24 other characters, or anything else.   *)
(* The database is the stored collections (name -> the document find_one     *)
(* returns) and the summaries of '1beaches' that carry a name.               *)

HexLower == [kind |-> "hex24", upper |-> FALSE, n |-> 1]
HexUpper == [kind |-> "hex24", upper |-> TRUE, n |-> 1]
Other24 == [kind |-> "other24", upper |-> FALSE, n |-> 1]
Plain == [kind |-> "plain", upper |-> FALSE, n |-> 1]
Plain2 == [kind |-> "plain", upper |-> FALSE, n |-> 2]
Beaches1 == [kind |-> "1beaches", upper |-> FALSE, n |-> 0]

RequestIds == {HexLower, HexUpper, Other24, Plain, Plain2}
CollectionNames == {HexLower, HexUpper, Other24, Plain}

\* What find_one({}) returns: None for an empty collection, else a document
\* with or without "name", and with "runs" absent or present (its runs
\* lacking operation_id, locations or grains).
Documents ==
    {[found |-> FALSE, has_name |-> FALSE, runs |-> "absent"]}
    \cup {[found |-> TRUE, has_name |-> hn, runs |-> r] :
             hn \in BOOLEAN, r \in {"absent", "partial"}}

\* Keys of '1beaches' records: an ObjectId or a string.
SummaryKeys == {[oid |-> TRUE, id |-> HexLower], [oid |-> FALSE, id |-> Plain]}

Databases ==
    {[collections |-> c, summaries |-> s] :
        c \in UNION {[names -> Documents] : names \in SUBSET CollectionNames},
        s \in SUBSET SummaryKeys}

\* The pymongo call that raises during the request, if any.
Faults == {"none", "list_collection_names", "find_one"}

\* Lines 50-56: ObjectId(beach_id) takes 24 hex digits and prints them in
\* lower case; anything else raises and the string is kept.
object_id_of(beach_id) ==
    IF beach_id.kind = "hex24"
    THEN [oid |-> TRUE, id |-> [beach_id EXCEPT !.upper = FALSE]]
    ELSE [oid |-> FALSE, id |-> beach_id]

\* str(object_id)
str_of(object_id) == object_id.id

\* Line 60.
name_matches(name, beach_id) ==
    name = beach_id \/ name = str_of(object_id_of(beach_id))

\* Mutant: the check of line 64 left out.
not_found_unchecked(matches) == FALSE

\* Line 64: the loop of lines 59-62 left beach_collection_name at None.
not_found(matches) == matches = {}

Error(status, what) == [status |-> status, error |-> what, name |-> "", runs |-> ""]

\* Lines 94-111 on a retrieved document: the response and the collections
\* find_one has read by then.
document_response(database, beach_id, name, doc) ==
    LET object_id == object_id_of(beach_id)
        key == IF object_id.oid THEN object_id ELSE [oid |-> FALSE, id |-> beach_id]
        runs_out == IF doc.runs = "absent" THEN "empty" ELSE "defaults_filled"
    IN  IF doc.has_name
        THEN [response |-> [status |-> 200, error |-> "", name |-> "stored", runs |-> runs_out],
              reads |-> <<name>>]
        ELSE IF ~object_id.oid /\ beach_id.kind = "other24"
        THEN \* line 95: ObjectId(beach_id) raises on 24 characters that are not hex
             [response |-> Error(500, "exception"), reads |-> <<name>>]
        ELSE [response |-> [status |-> 200, error |-> "",
                            name |-> IF key \in database.summaries
                                     THEN "summary" ELSE "Unknown Beach",
                            runs |-> runs_out],
              reads |-> <<name, Beaches1>>]

\* Lines 45-117 for the collection the loop of lines 59-62 stops at (chosen
\* among the matches: the listing's order is the server's).
get_runs_result(database, beach_id, fault, chosen) ==
    LET names == DOMAIN database.collections
        matches == {name \in names : name_matches(name, beach_id)}
    IN  IF fault = "list_collection_names"
        THEN [response |-> Error(500, "exception"), reads |-> <<>>]
        ELSE IF not_found(matches)
        THEN [response |-> Error(404, "Beach not found"), reads |-> <<>>]
        ELSE IF fault = "find_one" \/ chosen \notin names
        THEN \* line 69 raises: the call fails, or the name is None (which line
             \* 64 rules out)
             [response |-> Error(500, "exception"), reads |-> <<>>]
        ELSE IF ~database.collections[chosen].found
        THEN [response |-> Error(404, "Beach data not found"), reads |-> <<chosen>>]
        ELSE document_response(database, beach_id, chosen, database.collections[chosen])

ApiInit ==
    /\ db \in Databases
    /\ db_fault = "none"
    /\ request_id = NoId
    /\ response = NoResponse
    /\ reads = <<>>

\* One request to /api/runs/<beach_id>.
GetRuns ==
    \E beach_id \in RequestIds, fault \in Faults :
        LET matches == {name \in DOMAIN db.collections : name_matches(name, beach_id)}
        IN  \E chosen \in (IF matches = {} THEN {NoId} ELSE matches) :
                LET result == get_runs_result(db, beach_id, fault, chosen)
                IN  /\ request_id' = beach_id
                    /\ db_fault' = fault
                    /\ response' = result.response
                    /\ reads' = result.reads
                    /\ db' = db
                    /\ UNCHANGED <<gen_vars, grid_vars, evolve_vars>>

ApiNext == GetRuns

InitApi == ApiInit /\ GenIdle /\ GridIdle /\ EvolveIdle

SpecApi == InitApi /\ [][ApiNext]_vars

----------------------------------------------------------------------------
(* Properties.                                                               *)

\* Grains as lines 90-93 and 117-120 store them: the rounded draws.
IsFreshGrain(g) ==
    /\ g.diameter \in RoundDiv(diameter_min, 10)..RoundDiv(diameter_max, 10)
    /\ g.area \in RoundDiv(area_min, 10)..RoundDiv(area_max, 10)

\* C1: when the cell loop has finished, the master list has exactly the
\* sampled target count of entries (the per-cell counts sum to N).
C1_MasterListHasTargetCount ==
    grid_pc = "done" => grid_count = grid_target

\* C2: every appended run has one location record per master location, and
\* every record built so far (appended or in the run under construction)
\* carries the lat and lon of the master location of the same index.
C2_LocationsFollowMaster ==
    /\ \A r \in 1..Len(runs) :
           /\ Len(runs[r].locations) = Len(master_locations)
           /\ \A k \in 1..Len(runs[r].locations) :
                  /\ runs[r].locations[k].lat = master_locations[k].lat
                  /\ runs[r].locations[k].lon = master_locations[k].lon
                  /\ runs[r].locations[k].lat = runs[1].locations[k].lat
                  /\ runs[r].locations[k].lon = runs[1].locations[k].lon
    /\ Len(run_data.locations) <= Len(master_locations)
    /\ \A k \in 1..Len(run_data.locations) :
           /\ run_data.locations[k].lat = master_locations[k].lat
           /\ run_data.locations[k].lon = master_locations[k].lon

C2_Witness ==
    /\ pc = "done"
    /\ Len(runs) = 2
    /\ Len(master_locations) = 3
    /\ master_locations[1] # master_locations[2]
    /\ master_locations[2] # master_locations[3]
    /\ Len(runs[2].locations) = 3

\* C3: every grain the evolve block is given and every grain it produces,
\* day after day, has diameter > 0 and area > 0.
C3_GrainsPositive ==
    /\ \A k \in 1..Len(previous_grains) :
           previous_grains[k].diameter > 0 /\ previous_grains[k].area > 0
    /\ \A k \in 1..Len(surviving_grains) :
           surviving_grains[k].diameter > 0 /\ surviving_grains[k].area > 0

\* A grain of 0.00001 by 0.00001 that survived a second day at the lowest
\* change factor (0.93) and is still 0.00001 by 0.00001.
C3_Witness ==
    /\ e_pc = "evolved"
    /\ e_day = 2
    /\ e_params.mean - e_params.dev = 930
    /\ Len(previous_grains) >= 1
    /\ previous_grains[1] = [diameter |-> 1, area |-> 1]
    /\ survives(e_draw.rs[1], e_params)
    /\ surviving_grains[1] = [diameter |-> 1, area |-> 1]

C5_AllRemoved ==
    (/\ e_pc = "evolved"
     /\ e_params.remove_chance >= 1000
     /\ ~accretes(e_draw.g, e_params))
    => surviving_grains = <<>>

C5_Witness ==
    /\ e_pc = "evolved"
    /\ e_params.remove_chance = 1000
    /\ ~accretes(e_draw.g, e_params)
    /\ Len(previous_grains) = 2
    /\ e_draw.rs[1] = 999
    /\ surviving_grains = <<>>

\* g is prev_grain rescaled by one change factor of the range lines 75 and
\* 103 allow: [0.93, 1.07].
\* (Only the factors f with |prev_grain.diameter * f - 1000 * g.diameter| <= 500
\* can round to g.diameter; the search is over those.)
IsRescaled(g, prev_grain) ==
    LET lo == base_tendency.mean - mean_spread - base_tendency.dev
        hi == base_tendency.mean + mean_spread + base_tendency.dev
        d == prev_grain.diameter
        near_lo == IF d > 0 THEN Max(lo, ((1000 * g.diameter - 500) \div d) - 1) ELSE lo
        near_hi == IF d > 0 THEN ((1000 * g.diameter + 500) \div d) + 1 ELSE hi
    IN  \E f \in near_lo..(IF near_hi < hi THEN near_hi ELSE hi) :
            g = resized(prev_grain, f)

\* s is, grain by grain and in order, a rescaled subsequence of prev.
RECURSIVE IsRescaledSubsequence(_, _)
IsRescaledSubsequence(s, prev) ==
    IF s = <<>> THEN TRUE
    ELSE IF prev = <<>> THEN FALSE
    ELSE \/ (IsRescaled(Head(s), Head(prev)) /\ IsRescaledSubsequence(Tail(s), Tail(prev)))
         \/ IsRescaledSubsequence(s, Tail(prev))

\* cur is a rescaled subsequence of prev followed by no new grain or by 1 to
\* 7 fresh grains.
IsEvolutionOf(cur, prev) ==
    \E m \in 0..Len(cur) :
        /\ Len(cur) - m \in {0} \cup (min_new_grains..max_new_grains)
        /\ \A k \in (m + 1)..Len(cur) : IsFreshGrain(cur[k])
        /\ IsRescaledSubsequence(SubSeq(cur, 1, m), prev)

C7_FirstRunInRange ==
    LET first == IF Len(runs) >= 1 THEN runs[1].locations
                 ELSE IF pc = "locations" /\ i = 0 THEN run_data.locations
                 ELSE <<>>
    IN  \A k \in 1..Len(first) :
            /\ Len(first[k].grains) \in grains_per_location[1]..grains_per_location[2]
            /\ \A n \in 1..Len(first[k].grains) : IsFreshGrain(first[k].grains[n])

C7_Witness ==
    /\ Len(runs) >= 1
    /\ grains_per_location = <<0, 1>>
    /\ \E k, j \in 1..Len(runs[1].locations) :
           /\ runs[1].locations[k].grains = <<>>
           /\ Len(runs[1].locations[j].grains) = 1
           /\ runs[1].locations[j].grains[1].diameter = RoundDiv(diameter_max, 10)

\* The response to a request whose id the lookup of lines 59-62 matches to
\* no stored collection name.
UnknownIdAnswered ==
    /\ response # NoResponse
    /\ \A name \in DOMAIN db.collections : ~name_matches(name, request_id)

\* C8 as stated: an unknown id is always answered 404, never 500, and no
\* stored document is read.
C8_UnknownIdIs404 ==
    UnknownIdAnswered => (response.status = 404 /\ reads = <<>>)

\* C8 as amended: an unknown id is answered 404 when the collection listing
\* succeeds and 500 when that call raises; either way the response carries an
\* error body and no stored document is read.
C8_UnknownIdIs404UnlessListingFails ==
    UnknownIdAnswered =>
        /\ response.status = (IF db_fault = "list_collection_names" THEN 500 ELSE 404)
        /\ response.error # ""
        /\ reads = <<>>

\* A 24-hex id in upper case, unknown because neither it nor its lower-case
\* ObjectId form is stored, while other collections are.
C8_Witness ==
    /\ UnknownIdAnswered
    /\ request_id = HexUpper
    /\ db_fault = "none"
    /\ DOMAIN db.collections = {Other24, Plain}
    /\ response.status = 404

\* C9: a step never changes the master list once the run loop has begun nor
\* any run already appended; a run is appended last, as built, at the index
\* of its iteration; on return there are num_runs runs in day order.
C9_RunsAccumulate ==
    [][/\ (pc \notin {"sample", "cells"}) => master_locations' = master_locations
       /\ Len(runs') >= Len(runs)
       /\ SubSeq(runs', 1, Len(runs)) = runs
       /\ Len(runs') > Len(runs) =>
              /\ Len(runs') = i + 1
              /\ runs'[i + 1] = run_data
              /\ run_data.date = date_plus(start_date, i)
       /\ pc' = "done" =>
              /\ Len(runs') = num_runs
              /\ \A j \in 1..Len(runs') : runs'[j].date = date_plus(start_date, j - 1)
      ]_vars

C9_Witness ==
    /\ pc = "done"
    /\ num_runs = 2
    /\ Len(runs) = 2
    /\ runs[1] # runs[2]

\* The day's parameters are the base tendency plus one day's perturbation.
DailyParamsInRange(dp) ==
    /\ dp.mean \in (base_tendency.mean - mean_spread)..(base_tendency.mean + mean_spread)
    /\ dp.add_chance \in (base_tendency.add_chance - chance_spread)
                         ..(base_tendency.add_chance + chance_spread)
    /\ dp.remove_chance \in (base_tendency.remove_chance - chance_spread)
                            ..(base_tendency.remove_chance + chance_spread)
    /\ dp.dev = base_tendency.dev
    /\ Max(0, dp.remove_chance) = dp.remove_chance
    /\ Max(0, dp.add_chance) = dp.add_chance

\* C10: the base tendency is never changed; on every day mean is in
\* [0.98, 1.02], add_chance and remove_chance in [0.02, 0.08] and dev 0.05, so
\* the clamps at zero change nothing; and the day's parameters stay the same
\* from one location of the day to the next.
C10_NoDrift ==
    [][/\ global_tendency' = base_tendency
       /\ (pc' = "locations") => DailyParamsInRange(daily_params')
       /\ (pc = "locations") => daily_params' = daily_params
      ]_vars

\* The second day, drawn at the same end of the range as the first.
C10_Witness ==
    /\ pc = "locations"
    /\ i = 1
    /\ location_index = 2
    /\ daily_params.mean = base_tendency.mean + mean_spread
    /\ daily_params.remove_chance = base_tendency.remove_chance + chance_spread

====
